---- MODULE Spec2Model ----
(***************************************************************************)
(* PyPCAPKit: IP fragment reassembly (dev/jspcap/reassembly/ip.py) and the *)
(* extraction pipeline (src/fundations/extraction.py).                     *)
(*                                                                         *)
(* SpecIP  : one call of IP_Reassembly.reassembly(info), one loop pass per *)
(*           step, with Python's name resolution modelled as it runs.      *)
(* SpecNew : Extractor(...) from make_name to the first frame, over the     *)
(*           keyword arguments and the files that exist.                   *)
(* Spec    : the Extractor from line 349 on, stepped by its caller         *)
(*           (auto=False) or driving its worker processes (auto=True).     *)
(* SpecAuto: the auto=True Extractor alone, under fair scheduling.         *)
(***************************************************************************)
EXTENDS Integers, Sequences, FiniteSets, TLC

\* ------------------------------------------------------------------ bounds
MaxFrags == 3

\* ------------------------------------------------------- program constants
RCVBT_SIZE == 8191
DATA_SIZE == 65535

VARIABLES
    info,       \* ip.py: the argument of reassembly(), a sequence of fragments
    pos,        \* ip.py: index of the next element the for loop takes
    buffer,     \* ip.py: local dict BUFID -> flow buffer
    datagram,   \* ip.py: local list of reassembled datagrams
    locals,     \* ip.py: the function's other locals (TDL, and which of
                \*        data / header are bound)
    exc,        \* ip.py: "none" while running, "returned", or the exception
    args,       \* extraction.py: the keyword arguments Extractor(...) is called
                \*   with, and the names os.path.isfile() is true of
    cap,        \* the capture file: n decodable records, then end of file
                \*   (fail = FALSE) or a record that does not decode
    self,       \* extraction.py: the Extractor object of the driving process
    ofile,      \* extraction.py: what the output sink was called with, in order
    mpkit,      \* extraction.py: the manager's shared Namespace
    mpfdp,      \* extraction.py: the file-offset queues, by frame number
    wk,         \* extraction.py: the worker processes, by frame number
    dpc,        \* extraction.py: where the driving process stands
    dreg,       \* extraction.py: the value the driver read for a += / -=
    ret,        \* extraction.py: what the last call on the Extractor gave back
    out         \* the frames next() / __call__ returned to the caller, in order

ipVars == <<info, pos, buffer, datagram, locals, exc>>
exVars == <<args, cap, self, ofile, mpkit, mpfdp, wk, dpc, dreg, ret, out>>
vars == <<info, pos, buffer, datagram, locals, exc,
          args, cap, self, ofile, mpkit, mpfdp, wk, dpc, dreg, ret, out>>

Min(a, b) == IF a < b THEN a ELSE b
Max(a, b) == IF a > b THEN a ELSE b

\* ------------------------------------------------------------- fragments
BUFIDs == {1, 2}
Offsets == {0, 8, 16}
Lengths == {0, 8}
IHLs == {20}

\* what _ip_reassembly(buf) hands back, plus buf.header and buf.raw
Fragment == [BUFID : BUFIDs, FO : Offsets, IHL : IHLs, MF : BOOLEAN, len : Lengths]

TLof(buf) == buf.IHL + buf.len
\* the header bytes of a fragment, told apart by flow, offset and flag
HeaderOf(buf) == <<buf.BUFID, buf.FO, buf.MF, buf.IHL>>
\* the payload bytes of a fragment: byte p of the datagram carries p + 1
RawOf(buf) == [i \in 1..buf.len |-> buf.FO + i]

\* ------------------------------------------------ Python bytearray slices
\* A bytearray is kept sparse: its length and the non-zero bytes by index.
Bytearray(n) == [len |-> n, nz |-> << >>]

ClampLo(b, a) == Min(a, b.len)
ClampHi(b, a, z) == Max(Min(z, b.len), Min(a, b.len))

\* b[a:z] = v   (a, z >= 0; the array shrinks or grows by Len(v) - (z' - a'))
SliceAssign(b, a, z, v) ==
    LET lo == ClampLo(b, a)
        hi == ClampHi(b, a, z)
        d  == Len(v) - (hi - lo)
        keep == {i \in DOMAIN b.nz : i < lo} \cup {i + d : i \in {j \in DOMAIN b.nz : j >= hi}}
        new  == {lo + k - 1 : k \in {j \in 1..Len(v) : v[j] # 0}}
    IN [len |-> b.len + d,
        nz  |-> [i \in keep \cup new |->
                    IF i \in new THEN v[i - lo + 1]
                    ELSE IF i < lo THEN b.nz[i] ELSE b.nz[i - d]]]

\* b[a:z]
Slice(b, a, z) ==
    LET lo == ClampLo(b, a)
        hi == ClampHi(b, a, z)
    IN [k \in 1..(hi - lo) |-> IF (lo + k - 1) \in DOMAIN b.nz THEN b.nz[lo + k - 1] ELSE 0]

\* all(b[a:z])
AllSlice(b, a, z) == \A k \in ClampLo(b, a)..(ClampHi(b, a, z) - 1) : k \in DOMAIN b.nz

Ones(n) == [i \in 1..n |-> 1]

\* ---------------------------------------------------- Python name lookup
\* The bare names the loop body evaluates.  data and header are locals of
\* reassembly() (assigned at lines 34-35 and 76-77); RCVBT and Info are
\* bound nowhere in the module.  A bound data/header is a bytearray, which
\* cannot be a dict key.
NameLookupAsKey(name, bound) == "ok"

NameLookup(name, bound) ==
    IF name \in {"RCVBT", "Info"} THEN "NameError"
    ELSE IF name \in bound THEN "TypeError"
    ELSE "UnboundLocalError"

Unbound == -1

NewBuffer ==
    [TDL |-> 0, RCVBT |-> Bytearray(RCVBT_SIZE), data |-> Bytearray(DATA_SIZE), header |-> << >>]

DelKey(f, k) == [x \in DOMAIN f \ {k} |-> f[x]]
PutKey(f, k, v) == [x \in DOMAIN f \cup {k} |-> IF x = k THEN v ELSE f[x]]

Raise(S, e) == [S EXCEPT !.exc = e]

\* lines 31-42: an unfragmented packet whose BUFID has a buffer
Unfragmented(S, buf) ==
    LET S1 == [S EXCEPT !.bound = @ \cup {"header", "data"}]
        packet == [header  |-> S.buffer[buf.BUFID].header,
                   payload |-> Slice(S.buffer[buf.BUFID].data, buf.IHL, TLof(buf))]
    IN IF NameLookup("Info", S1.bound) # "ok"
       THEN Raise(S1, NameLookup("Info", S1.bound))
       ELSE [S1 EXCEPT !.datagram = Append(@, packet),
                       !.buffer = DelKey(@, buf.BUFID),
                       !.cont = TRUE]

\* lines 44-51, with the new buffer also handed out twice as a result
InitBufferEmitting(S, buf) ==
    IF buf.BUFID \in DOMAIN S.buffer THEN S
    ELSE [S EXCEPT !.buffer = PutKey(@, buf.BUFID, NewBuffer),
                   !.datagram = @ \o <<[header |-> << >>, payload |-> << >>],
                                       [header |-> << >>, payload |-> << >>]>>]

\* lines 44-51
InitBuffer(S, buf) ==
    IF buf.BUFID \in DOMAIN S.buffer THEN S
    ELSE [S EXCEPT !.buffer = PutKey(@, buf.BUFID, NewBuffer)]

\* lines 53-56
PutData(S, buf) ==
    LET start == buf.FO
        stop  == TLof(buf) - buf.IHL + buf.FO
    IN IF NameLookup("data", S.bound) # "ok"
       THEN Raise(S, NameLookup("data", S.bound))
       ELSE [S EXCEPT !.buffer[buf.BUFID].data = SliceAssign(@, start, stop, RawOf(buf))]

\* lines 58-61
SetRCVBT(S, buf) ==
    LET start == buf.FO \div 8
        stop  == buf.FO \div 8 + (TLof(buf) - buf.IHL + 7) \div 8
    IN IF NameLookup("RCVBT", S.bound) # "ok"
       THEN Raise(S, NameLookup("RCVBT", S.bound))
       ELSE [S EXCEPT !.buffer[buf.BUFID].RCVBT =
                          SliceAssign(@, start, stop, Ones(stop - start + 1))]

\* lines 63-65: TDL is a local of reassembly(), not the buffer's field
GetTDL(S, buf) ==
    IF ~buf.MF THEN [S EXCEPT !.TDL = TLof(buf) - buf.IHL + buf.FO] ELSE S

\* lines 67-69
PutHeader(S, buf) ==
    IF buf.FO # 0 THEN S
    ELSE IF NameLookup("header", S.bound) # "ok"
         THEN Raise(S, NameLookup("header", S.bound))
         ELSE [S EXCEPT !.buffer[buf.BUFID].header = HeaderOf(buf)]

\* lines 71-83
Reassembled(S, buf) ==
    IF S.TDL = Unbound THEN Raise(S, "UnboundLocalError")
    ELSE IF S.TDL = 0 THEN S
    ELSE IF NameLookup("RCVBT", S.bound) # "ok"
         THEN Raise(S, NameLookup("RCVBT", S.bound))
    ELSE IF ~AllSlice(S.buffer[buf.BUFID].RCVBT, 0, (S.TDL + 7) \div 8) THEN S
    ELSE LET TL == S.TDL + buf.IHL
             S1 == [S EXCEPT !.bound = @ \cup {"header", "data"}]
             packet == [header  |-> S.buffer[buf.BUFID].header,
                        payload |-> Slice(S.buffer[buf.BUFID].data, buf.IHL, TL)]
         IN IF NameLookup("Info", S1.bound) # "ok"
            THEN Raise(S1, NameLookup("Info", S1.bound))
            ELSE [S1 EXCEPT !.datagram = Append(@, packet),
                            !.buffer = DelKey(@, buf.BUFID)]

Then(S, Op(_, _), buf) == IF S.exc # "none" \/ S.cont THEN S ELSE Op(S, buf)

\* lines 27-83: one pass of `for buf in info`
LoopBody(S, buf) ==
    LET S0 == IF ~(buf.FO # 0) /\ ~buf.MF /\ buf.BUFID \in DOMAIN S.buffer
              THEN Unfragmented(S, buf) ELSE S
        S1 == Then(S0, InitBuffer, buf)
        S2 == Then(S1, PutData, buf)
        S3 == Then(S2, SetRCVBT, buf)
        S4 == Then(S3, GetTDL, buf)
        S5 == Then(S4, PutHeader, buf)
    IN Then(S5, Reassembled, buf)

\* the extraction pipeline's variables while only reassembly() runs
IdleEx ==
    /\ args = << >>
    /\ cap = [n |-> 0, fail |-> FALSE]
    /\ self = << >>
    /\ ofile = << >>
    /\ mpkit = << >>
    /\ mpfdp = << >>
    /\ wk = << >>
    /\ dpc = "idle"
    /\ dreg = 0
    /\ ret = "none"
    /\ out = << >>

\* ------------------------------------------------------------ SpecIP
InfoSeqs == UNION {[1..n -> Fragment] : n \in 0..MaxFrags}

InitIP ==
    /\ info \in InfoSeqs
    /\ pos = 1
    /\ buffer = << >>
    /\ datagram = << >>
    /\ locals = [TDL |-> Unbound, bound |-> {}]
    /\ exc = "none"
    /\ IdleEx

\* the for loop takes the next fragment
reassembly ==
    /\ exc = "none"
    /\ pos <= Len(info)
    /\ LET S == LoopBody([buffer |-> buffer, datagram |-> datagram, TDL |-> locals.TDL,
                          bound |-> locals.bound, exc |-> "none", cont |-> FALSE],
                         info[pos])
       IN /\ buffer' = S.buffer
          /\ datagram' = S.datagram
          /\ locals' = [TDL |-> S.TDL, bound |-> S.bound]
          /\ exc' = S.exc
    /\ pos' = pos + 1
    /\ UNCHANGED info
    /\ UNCHANGED exVars

\* line 85: return tuple(datagram)
reassembly_return ==
    /\ exc = "none"
    /\ pos > Len(info)
    /\ exc' = "returned"
    /\ UNCHANGED <<info, pos, buffer, datagram, locals>>
    /\ UNCHANGED exVars

NextIP == reassembly \/ reassembly_return

SpecIP == InitIP /\ [][NextIP]_vars

\* ------------------------------------------------------ claims on SpecIP
Idx == 1..Len(info)
End(i) == info[i].FO + info[i].len
Covers(i, o) == info[i].FO <= o /\ o < End(i)
Blocks(n) == {o \in 0..(n - 1) : o % 8 = 0}
OneFlow == \A i, j \in Idx : info[i].BUFID = info[j].BUFID
IsUnfragmented(buf) == buf.FO = 0 /\ ~buf.MF
Total == IF Idx = {} THEN 0 ELSE CHOOSE n \in {End(i) : i \in Idx} : \A i \in Idx : End(i) <= n
Finished == exc # "none"

\* the fragments of info tile [0, Total): one flow, every block covered by
\* exactly one fragment, and only the fragment that ends at Total has MF false
Tiles ==
    /\ Idx # {}
    /\ OneFlow
    /\ \A i \in Idx : info[i].len > 0 /\ (info[i].MF <=> End(i) # Total)
    /\ \A o \in Blocks(Total) : Cardinality({i \in Idx : Covers(i, o)}) = 1

\* C1 (as claimed): fragments of one BUFID that tile [0, total), submitted in
\* any order, leave the call returned with exactly one datagram, its payload
\* of the total data length and its header that of the offset-0 fragment.
C1_TilingCompletes ==
    (Finished /\ Tiles) =>
        /\ exc = "returned"
        /\ Len(datagram) = 1
        /\ Len(datagram[1].payload) = Total
        /\ \E i \in Idx : info[i].FO = 0 /\ datagram[1].header = HeaderOf(info[i])

\* some block below the end of every terminal fragment is covered by no
\* fragment of info
HasHole ==
    \A t \in Idx : ~info[t].MF =>
        \E o \in Blocks(End(t)) : \A i \in Idx : ~Covers(i, o)

\* C2: fragments of one BUFID, none unfragmented, that leave a block of
\* [0, declared total) uncovered never produce a datagram, however many are
\* submitted and also once the MF=false fragment has arrived.
C2_HoleNeverCompletes ==
    (OneFlow /\ HasHole /\ \A i \in Idx : ~IsUnfragmented(info[i])) => Len(datagram) = 0

\* C2 witness: [0,8) and the terminal [16,24) were handed in, [8,16) never,
\* and the call is over.
C2_Witness ==
    /\ Finished
    /\ OneFlow /\ HasHole /\ \A i \in Idx : ~IsUnfragmented(info[i])
    /\ \E i, t \in Idx : /\ info[i].FO = 0 /\ info[i].len = 8 /\ info[i].MF
                         /\ info[t].FO = 16 /\ info[t].len = 8 /\ ~info[t].MF
    /\ \A i \in Idx : ~Covers(i, 8)

\* C7 (as claimed): the pass that takes an unfragmented packet whose BUFID has
\* no buffer appends exactly that packet (its header, its payload) to the
\* results and leaves the flow table as it was, without an entry for the BUFID.
C7_UnfragmentedEmittedAtOnce ==
    [][(reassembly /\ IsUnfragmented(info[pos]) /\ info[pos].BUFID \notin DOMAIN buffer) =>
          /\ exc' = "none"
          /\ datagram' = Append(datagram, [header  |-> HeaderOf(info[pos]),
                                           payload |-> RawOf(info[pos])])
          /\ buffer' = buffer]_vars

UnfragmentedOverBuffer ==
    /\ Len(info) = 2
    /\ info[1].BUFID = info[2].BUFID
    /\ info[1].MF
    /\ IsUnfragmented(info[2])

\* C17 (as claimed): an unfragmented packet that arrives for a BUFID with a
\* buffer makes the call return one result, with the header the buffer had
\* gathered, and the flow table is left without the buffer and without a new
\* one for the packet.
C17_UnfragmentedOverBufferEmitsBuffer ==
    (Finished /\ UnfragmentedOverBuffer) =>
        /\ exc = "returned"
        /\ Len(datagram) = 1
        /\ datagram[1].header = (IF info[1].FO = 0 THEN HeaderOf(info[1]) ELSE << >>)
        /\ DOMAIN buffer = {}

\* the completion test of line 74 on the buffer of BUFID b
CompleteBuffer(b) ==
    /\ locals.TDL > 0
    /\ AllSlice(buffer[b].RCVBT, 0, (locals.TDL + 7) \div 8)

\* C18: after every submission no buffer of the flow table is complete (its
\* total length known and its receipt table set over all of it).
C18_NoCompleteBufferKept ==
    \A b \in DOMAIN buffer : ~CompleteBuffer(b)

\* C18 witness: a fragment that ends its flow at 8 bytes was submitted and
\* the flow table holds a buffer.
C18_Witness ==
    /\ pos > 1
    /\ DOMAIN buffer # {}
    /\ \E i \in 1..(pos - 1) : ~info[i].MF /\ End(i) = 8

\* reassembly(seq) computed pass by pass; tags[k] is the BUFID of the fragment
\* whose pass appended datagram[k]
RECURSIVE Run(_, _, _)
Run(S, seq, i) ==
    IF i > Len(seq) \/ S.exc # "none" THEN S
    ELSE LET T == LoopBody([S EXCEPT !.cont = FALSE], seq[i])
         IN Run([T EXCEPT !.tags = IF Len(T.datagram) > Len(S.datagram)
                                   THEN Append(@, seq[i].BUFID) ELSE @],
                seq, i + 1)
Call(seq) ==
    Run([buffer |-> << >>, datagram |-> << >>, TDL |-> Unbound, bound |-> {},
         exc |-> "none", cont |-> FALSE, tags |-> << >>], seq, 1)
\* the datagrams a call on seq emits for BUFID b, in order
ResultsFor(seq, b) ==
    LET R == Call(seq)
        I == {k \in 1..Len(R.datagram) : R.tags[k] = b}
    IN [n \in 1..Cardinality(I) |->
           R.datagram[CHOOSE k \in I : Cardinality({j \in I : j <= k}) = n]]
Project(seq, b) == SelectSeq(seq, LAMBDA f : f.BUFID = b)

\* C19: what a call emits for a BUFID is what it emits when the fragments of
\* the other BUFIDs are taken out of info, and a buffer's total length is
\* set only once a MF=false fragment of its own BUFID was submitted.
C19_FlowsIsolated ==
    /\ \A b \in DOMAIN buffer :
           buffer[b].TDL # 0 => \E i \in 1..(pos - 1) : info[i].BUFID = b /\ ~info[i].MF
    /\ Finished =>
           /\ datagram = Call(info).datagram
           /\ \A b \in BUFIDs : ResultsFor(info, b) = ResultsFor(Project(info, b), b)

\* C19 witness: the call is over on fragments of two BUFIDs, the first of
\* them a fragment that ends its flow.
C19_Witness ==
    /\ Finished
    /\ Len(info) >= 2
    /\ ~info[1].MF /\ info[1].len > 0
    /\ \E j \in Idx : info[j].BUFID # info[1].BUFID

\* C20 (as claimed): the pass that takes a fragment with offset 0, no payload
\* and MF=false whose BUFID has no buffer appends one datagram with an empty
\* payload and leaves no buffer for the BUFID.
C20_EmptyTerminalCompletes ==
    [][(/\ reassembly
        /\ info[pos].FO = 0 /\ info[pos].len = 0 /\ ~info[pos].MF
        /\ info[pos].BUFID \notin DOMAIN buffer) =>
          /\ Len(datagram') = Len(datagram) + 1
          /\ datagram'[Len(datagram')].payload = << >>
          /\ info[pos].BUFID \notin DOMAIN buffer']_vars

MaxFarFrags == 2
FarOffsets == Offsets \cup {65528}
FarFragment == [BUFID : BUFIDs, FO : FarOffsets, IHL : IHLs, MF : BOOLEAN, len : Lengths]

InitIPFar ==
    /\ info \in UNION {[1..n -> FarFragment] : n \in 0..MaxFarFrags}
    /\ pos = 1
    /\ buffer = << >>
    /\ datagram = << >>
    /\ locals = [TDL |-> Unbound, bound |-> {}]
    /\ exc = "none"
    /\ IdleEx

SpecIPFar == InitIPFar /\ [][NextIP]_vars

\* ---------------------------------------------------- claims on SpecIPFar
\* the data region of BUFID b in flow table t, before a buffer exists the
\* region lines 45-51 would create
DataOf(t, b) == IF b \in DOMAIN t THEN t[b].data ELSE Bytearray(DATA_SIZE)

\* C21 (as claimed): every pass leaves each flow's data region at 65535 bytes
\* and its receipt table at 8191, and the pass over a fragment whose range
\* [FO, FO + TL - IHL) ends past 65535 stores none of its bytes and lets the
\* loop go on to the next fragment.
C21_OverCapacityRejected ==
    [][reassembly =>
          /\ \A b \in DOMAIN buffer' : /\ buffer'[b].data.len = DATA_SIZE
                                       /\ buffer'[b].RCVBT.len = RCVBT_SIZE
          /\ End(pos) > DATA_SIZE =>
                 /\ exc' = "none"
                 /\ DataOf(buffer', info[pos].BUFID) = DataOf(buffer, info[pos].BUFID)]_vars

\* ==================================================== extraction pipeline
\* Spec : an Extractor built with auto=False is stepped by its caller; one
\*        built with auto=True drives the worker processes from its
\*        constructor, one step per access to the shared Namespace.

MaxFrames == 3
CPU_CNT == 2
KEEP == 4

IdleIP ==
    /\ info = << >>
    /\ pos = 1
    /\ buffer = << >>
    /\ datagram = << >>
    /\ locals = [TDL |-> Unbound, bound |-> {}]
    /\ exc = "none"

Workers == 1..(MaxFrames + 1)
Captures == [n : 0..MaxFrames, fail : BOOLEAN]
NoFrame == [num |-> 0, rec |-> 0]

\* ---- collaborators that are not in src/ ---------------------------------
\* Header(file): reads the global header; the first record starts at 1
HeaderLength == 1
\* Frame(file, num=...): the record at file position p decodes, or the read
\* hits the end of the file or a record that does not decode; both are
\* signalled as EOFError.  A closed file raises ValueError.
FrameRead(file) ==
    IF file.closed THEN "ValueError"
    ELSE IF file.pos <= cap.n THEN "ok"
    ELSE "EOFError"
FrameOf(num, p) == [num |-> num, rec |-> p]
\* the reassembly engines' __call__: the engine state is the fragments it
\* was handed, in order
Submit(reasm, frame) == Append(reasm, frame.rec)

\* ---- Extractor.__init__, lines 297-347 ----------------------------------
NewExtractor(auto, store, nofile) ==
    [flag_a |-> auto, flag_d |-> store, flag_e |-> FALSE,
     flag_m |-> auto /\ CPU_CNT # 0, flag_q |-> nofile,
     frnum |-> 1, frame |-> << >>, reasm |-> << >>, proto |-> 0,
     ifile |-> [closed |-> FALSE, pos |-> 0],
     mp |-> FALSE, mpprc |-> << >>]

\* lines 357-362
NewNamespace(s) ==
    [counter |-> 0, pool |-> 1, curent |-> 1, eof |-> FALSE,
     frames |-> << >>, reassembly |-> s.reasm]

\* lines 418-437
record_header(s, o) ==
    [self  |-> [s EXCEPT !.ifile.pos = HeaderLength],
     ofile |-> IF s.flag_q THEN o ELSE Append(o, [name |-> "Global Header", num |-> 0])]

\* lines 526-547: verbose line, sink, fragments to the engines
analyse_frame_ng_head(s, o, frame) ==
    [self  |-> [s EXCEPT !.reasm = Submit(@, frame)],
     ofile |-> IF s.flag_q THEN o ELSE Append(o, [name |-> "Frame", num |-> s.frnum])]

analyse_frame_ng_tail_same_number(s, frame) ==
    [s EXCEPT !.frame = IF s.flag_d THEN Append(@, frame) ELSE @,
              !.proto = frame.rec]

\* lines 556-560: record the frame, sequential branch
analyse_frame_ng_tail(s, frame) ==
    [s EXCEPT !.frame = IF s.flag_d THEN Append(@, frame) ELSE @,
              !.frnum = @ + 1,
              !.proto = frame.rec]

\* lines 487-507, sequential branch: [exc, self, frame]
extract_frame(s) ==
    IF s.flag_e THEN [exc |-> "EOFError", self |-> s, frame |-> NoFrame]
    ELSE IF FrameRead(s.ifile) # "ok"
         THEN [exc |-> FrameRead(s.ifile), self |-> s, frame |-> NoFrame]
         ELSE [exc |-> "none", self |-> [s EXCEPT !.ifile.pos = @ + 1],
               frame |-> FrameOf(s.frnum, s.ifile.pos)]

\* lines 439-447, sequential branch (flag_m false): [exc, self, ofile, frame]
record_frames(s, o) ==
    LET e == extract_frame(s)
        a == analyse_frame_ng_head(e.self, o, e.frame)
    IN IF e.exc # "none"
       THEN [exc |-> e.exc, self |-> s, ofile |-> o, frame |-> NoFrame]
       ELSE [exc |-> "none", self |-> analyse_frame_ng_tail(a.self, e.frame),
             ofile |-> a.ofile, frame |-> e.frame]

\* lines 439-443 after the _mp* attributes were deleted by _aftermathmp
record_frames_mp(s) == IF s.mp THEN "none" ELSE "AttributeError"

Close(s) == [s EXCEPT !.ifile.closed = TRUE]

\* ---- Extractor.make_name, lines 171-218 ----------------------------------
\* File names are kept as stem and extension; None is Python's None.
None == "None"
NoName == [stem |-> None, ext |-> None]
Fins == {NoName, [stem |-> "a", ext |-> ""], [stem |-> "a", ext |-> "pcap"]}
Fouts == {NoName, [stem |-> "out", ext |-> ""], [stem |-> "out", ext |-> "json"],
          [stem |-> "out", ext |-> "yaml"]}
Formats == {None, "plist", "json", "tree", "html", "xml", "yaml"}
\* what os.path.isfile() is true of
FileSystems == {{}, {[stem |-> "a", ext |-> ""]}, {[stem |-> "a", ext |-> "pcap"]},
                {[stem |-> "in", ext |-> "pcap"]}}

Arguments ==
    [fin : Fins, fout : Fouts, fmt : Formats, store : BOOLEAN, auto : BOOLEAN,
     extension : BOOLEAN, files : BOOLEAN, nofile : BOOLEAN, isfile : FileSystems]

\* lines 173-179
InputName(a) ==
    IF a.fin = NoName THEN [stem |-> "in", ext |-> "pcap"]
    ELSE IF a.extension /\ a.fin.ext # "pcap" THEN [stem |-> a.fin.stem, ext |-> "pcap"]
    ELSE a.fin

\* lines 184-218: [exc, ifnm, ofnm, fmt, ext, files].  A fout with an
\* extension always names a format, so line 209 is not taken here.
OutputName(a) ==
    LET fmt_none == a.fmt = None
        ext == CASE a.fmt = "html" -> "js" [] a.fmt = "tree" -> "txt" [] OTHER -> a.fmt
        ok(ofnm, fmt, e, files) ==
            [exc |-> "none", ifnm |-> InputName(a), ofnm |-> ofnm, fmt |-> fmt,
             ext |-> e, files |-> files]
        FormatError ==
            [exc |-> "FormatError", ifnm |-> InputName(a), ofnm |-> NoName,
             fmt |-> a.fmt, ext |-> ext, files |-> a.files]
    IN IF a.nofile THEN ok(NoName, a.fmt, None, a.files)
       ELSE IF a.fout = NoName
            THEN IF fmt_none THEN FormatError
                 ELSE IF a.files THEN ok([stem |-> "out", ext |-> ""], a.fmt, ext, TRUE)
                 ELSE ok([stem |-> "out", ext |-> ext], a.fmt, ext, FALSE)
       ELSE IF a.fout.ext # ""
            THEN ok(a.fout, IF fmt_none THEN a.fout.ext ELSE a.fmt, ext, FALSE)
       ELSE IF fmt_none THEN FormatError
       ELSE IF a.files THEN ok(a.fout, a.fmt, ext, TRUE)
       ELSE IF a.extension THEN ok([stem |-> a.fout.stem, ext |-> ext], a.fmt, ext, FALSE)
       ELSE ok(a.fout, a.fmt, ext, FALSE)

make_name_format_first(a) ==
    IF OutputName(a).exc # "none" THEN OutputName(a)
    ELSE IF InputName(a) \notin a.isfile
         THEN [OutputName(a) EXCEPT !.exc = "FileNotFound"]
         ELSE OutputName(a)

\* lines 171-218
make_name(a) ==
    IF InputName(a) \notin a.isfile
    THEN [exc |-> "FileNotFound", ifnm |-> InputName(a), ofnm |-> NoName,
          fmt |-> a.fmt, ext |-> None, files |-> a.files]
    ELSE OutputName(a)

\* lines 333-345: the formats a sink class is imported for
SinkFormats == {"plist", "json", "tree", "html", "xml"}

\* the arguments of an Extractor that gets past line 347
DefaultArguments(auto, store, nofile) ==
    [fin |-> NoName, fout |-> NoName, fmt |-> "json", store |-> store, auto |-> auto,
     extension |-> TRUE, files |-> FALSE, nofile |-> nofile,
     isfile |-> {[stem |-> "in", ext |-> "pcap"]}]

\* ---- the caller's operations ---------------------------------------------
InitEx ==
    /\ IdleIP
    /\ cap \in Captures
    /\ \E auto \in BOOLEAN, store \in BOOLEAN, nofile \in BOOLEAN :
          /\ args = DefaultArguments(auto, store, nofile)
          /\ self = NewExtractor(auto, store, nofile)
    /\ ofile = << >>
    /\ mpkit = << >>
    /\ mpfdp = << >>
    /\ wk = [w \in Workers |-> [pc |-> "idle", frnum |-> 0, file |-> 0, reg |-> 0,
                                reasm |-> << >>, frame |-> NoFrame]]
    /\ dpc = "new"
    /\ dreg = 0
    /\ ret = "none"
    /\ out = << >>

\* lines 349-366 with flag_m false: header, then _record_frames() once
init_seq ==
    /\ dpc = "new"
    /\ ~self.flag_m
    /\ LET h == record_header(self, ofile)
           r == record_frames(h.self, h.ofile)
       IN /\ self' = r.self
          /\ ofile' = r.ofile
          /\ ret' = r.exc
          /\ dpc' = IF r.exc = "none" THEN "ready" ELSE "raised"
    /\ UNCHANGED <<ipVars, args, cap, mpkit, mpfdp, wk, dreg, out>>

\* lines 368-371
iter ==
    /\ dpc = "ready"
    /\ ret' = IF ~self.flag_a THEN "self" ELSE "IterableError"
    /\ UNCHANGED <<ipVars, args, cap, self, ofile, mpkit, mpfdp, wk, dpc, dreg, out>>

\* lines 373-378
next ==
    /\ dpc = "ready"
    /\ IF self.flag_m
       THEN /\ ret' = record_frames_mp(self)
            /\ UNCHANGED <<self, ofile, out>>
       ELSE LET r == record_frames(self, ofile)
            IN /\ self' = IF r.exc = "EOFError" THEN Close(r.self) ELSE r.self
               /\ ofile' = r.ofile
               /\ ret' = IF r.exc = "EOFError" THEN "StopIteration"
                         ELSE IF r.exc # "none" THEN r.exc
                         ELSE "frame"
               /\ out' = IF r.exc = "none" THEN Append(out, r.frame) ELSE out
    /\ UNCHANGED <<ipVars, args, cap, mpkit, mpfdp, wk, dpc, dreg>>

\* lines 380-387
call ==
    /\ dpc = "ready"
    /\ IF self.flag_a
       THEN /\ ret' = "CallableError"
            /\ UNCHANGED <<self, ofile, out>>
       ELSE LET r == record_frames(self, ofile)
            IN /\ self' = IF r.exc = "EOFError" THEN Close(r.self) ELSE r.self
               /\ ofile' = r.ofile
               /\ ret' = IF r.exc # "none" THEN r.exc ELSE "frame"
               /\ out' = IF r.exc = "none" THEN Append(out, r.frame) ELSE out
    /\ UNCHANGED <<ipVars, args, cap, mpkit, mpfdp, wk, dpc, dreg>>

\* lines 389-393: leaving the with block
exit ==
    /\ dpc = "ready"
    /\ self' = Close(self)
    /\ ret' = "closed"
    /\ UNCHANGED <<ipVars, args, cap, ofile, mpkit, mpfdp, wk, dpc, dreg, out>>

\* ---- parallel mode: the driving process ----------------------------------
\* lines 349-366 with flag_m true: Namespace, header, mpfdp[0].put(...)
init_mp ==
    /\ dpc = "new"
    /\ self.flag_m
    /\ LET h == record_header(self, ofile)
       IN /\ self' = [h.self EXCEPT !.mp = TRUE]
          /\ ofile' = h.ofile
          /\ mpkit' = NewNamespace(self)
    /\ mpfdp' = [k \in {0} |-> <<HeaderLength>>]
    /\ dpc' = "check_eof"
    /\ UNCHANGED <<ipVars, args, cap, wk, dreg, ret, out>>

\* ---- the constructor up to the frame loop ---------------------------------
\* line 297
new_make_name ==
    /\ dpc = "call"
    /\ IF make_name(args).exc # "none"
       THEN /\ dpc' = "raised"
            /\ ret' = make_name(args).exc
       ELSE /\ dpc' = "open"
            /\ UNCHANGED ret
    /\ UNCHANGED <<ipVars, args, cap, self, ofile, mpkit, mpfdp, wk, dreg, out>>

\* lines 299-347: the attributes, open(ifnm, 'rb'), the sink class
new_open ==
    /\ dpc = "open"
    /\ self' = NewExtractor(args.auto, args.store, args.nofile)
    /\ IF ~args.nofile /\ make_name(args).fmt \notin SinkFormats
       THEN /\ dpc' = "raised"
            /\ ret' = "FormatError"
       ELSE /\ dpc' = "new"
            /\ UNCHANGED ret
    /\ UNCHANGED <<ipVars, args, cap, ofile, mpkit, mpfdp, wk, dreg, out>>

InitNew ==
    /\ IdleIP
    /\ args \in Arguments
    /\ cap \in {c \in Captures : c.n <= 1 /\ ~c.fail}
    /\ self = << >>
    /\ ofile = << >>
    /\ mpkit = << >>
    /\ mpfdp = << >>
    /\ wk = [w \in Workers |-> [pc |-> "idle", frnum |-> 0, file |-> 0, reg |-> 0,
                                reasm |-> << >>, frame |-> NoFrame]]
    /\ dpc = "call"
    /\ dreg = 0
    /\ ret = "none"
    /\ out = << >>

NextNew == new_make_name \/ new_open \/ init_seq \/ init_mp

SpecNew == InitNew /\ [][NextNew]_vars

Terminated(ws) == \A w \in ws : wk[w].pc = "done"
Elems(q) == {q[i] : i \in 1..Len(q)}
\* q[:-k] and q[-k:]
DropLast(q, k) == SubSeq(q, 1, Max(Len(q) - k, 0))
LastOnes(q, k) == SubSeq(q, Max(Len(q) - k, 0) + 1, Len(q))

\* line 460, eof not set: go on to the counter check
read_frame_check_eof ==
    /\ dpc = "check_eof"
    /\ ~mpkit.eof
    /\ dpc' = "check_pool"
    /\ UNCHANGED <<ipVars, args, cap, self, ofile, mpkit, mpfdp, wk, dreg, ret, out>>

\* [ self._mpkit.frames[x] for x in sorted(self._mpkit.frames) ]
SortedValues(d) ==
    [i \in 1..Cardinality(DOMAIN d) |->
        d[CHOOSE k \in DOMAIN d : Cardinality({j \in DOMAIN d : j <= k}) = i]]

JoinedNobody(s) == TRUE

\* line 402: every proc.join() has returned
Joined(s) == Terminated(Elems(s.mpprc))

\* lines 399-408, once the joins have returned, without line 409
aftermathmp_uncorrected(s) ==
    IF ~s.flag_e /\ s.flag_m
    THEN [s EXCEPT !.frame = SortedValues(mpkit.frames),
                   !.reasm = mpkit.reassembly,
                   !.mp = FALSE,
                   !.mpprc = << >>]
    ELSE s

\* lines 399-409, once the joins have returned
aftermathmp(s) ==
    IF ~s.flag_e /\ s.flag_m
    THEN [s EXCEPT !.frame = SortedValues(mpkit.frames),
                   !.reasm = mpkit.reassembly,
                   !.mp = FALSE,
                   !.mpprc = << >>,
                   !.frnum = @ - 1]
    ELSE s

\* lines 460, 412-416: eof is set, so _update_eof() and leave the loop
update_eof ==
    /\ dpc = "check_eof"
    /\ mpkit.eof
    /\ (~self.flag_e /\ self.flag_m) => Joined(self)
    /\ self' = [Close(aftermathmp(self)) EXCEPT !.flag_e = TRUE]
    /\ dpc' = "ready"
    /\ UNCHANGED <<ipVars, args, cap, ofile, mpkit, mpfdp, wk, dreg, ret, out>>

\* line 463, left operand
read_frame_check_pool ==
    /\ dpc = "check_pool"
    /\ dpc' = IF mpkit.pool # 0 THEN "check_counter" ELSE "check_buffer"
    /\ UNCHANGED <<ipVars, args, cap, self, ofile, mpkit, mpfdp, wk, dreg, ret, out>>

\* line 463, right operand
read_frame_check_counter ==
    /\ dpc = "check_counter"
    /\ dpc' = IF mpkit.counter < CPU_CNT THEN "seek" ELSE "check_buffer"
    /\ UNCHANGED <<ipVars, args, cap, self, ofile, mpkit, mpfdp, wk, dreg, ret, out>>

\* lines 465-471 with the offset read from the queue but the file not moved
read_frame_seek_unmoved ==
    /\ dpc = "seek"
    /\ (self.frnum - 1) \in DOMAIN mpfdp
    /\ Len(mpfdp[self.frnum - 1]) > 0
    /\ mpfdp' = [k \in (DOMAIN mpfdp \ {self.frnum - 1}) \cup {self.frnum} |->
                    IF k = self.frnum THEN << >> ELSE mpfdp[k]]
    /\ dpc' = "pool_read"
    /\ UNCHANGED <<ipVars, args, cap, self, ofile, mpkit, wk, dreg, ret, out>>

\* lines 465-471: blocking get of the offset the previous frame published
read_frame_seek ==
    /\ dpc = "seek"
    /\ (self.frnum - 1) \in DOMAIN mpfdp
    /\ Len(mpfdp[self.frnum - 1]) > 0
    /\ self' = [self EXCEPT !.ifile.pos = Head(mpfdp[self.frnum - 1])]
    /\ mpfdp' = [k \in (DOMAIN mpfdp \ {self.frnum - 1}) \cup {self.frnum} |->
                    IF k = self.frnum THEN << >> ELSE mpfdp[k]]
    /\ dpc' = "pool_read"
    /\ UNCHANGED <<ipVars, args, cap, ofile, mpkit, wk, dreg, ret, out>>

\* line 474: pool -= 1, the read
read_frame_pool_read ==
    /\ dpc = "pool_read"
    /\ dreg' = mpkit.pool
    /\ dpc' = "pool_write"
    /\ UNCHANGED <<ipVars, args, cap, self, ofile, mpkit, mpfdp, wk, ret, out>>

\* line 474: pool -= 1, the write
read_frame_pool_write ==
    /\ dpc = "pool_write"
    /\ mpkit' = [mpkit EXCEPT !.pool = dreg - 1]
    /\ dpc' = "counter_read"
    /\ UNCHANGED <<ipVars, args, cap, self, ofile, mpfdp, wk, dreg, ret, out>>

\* line 475: counter += 1, the read
read_frame_counter_read ==
    /\ dpc = "counter_read"
    /\ dreg' = mpkit.counter
    /\ dpc' = "counter_write"
    /\ UNCHANGED <<ipVars, args, cap, self, ofile, mpkit, mpfdp, wk, ret, out>>

\* line 475: counter += 1, the write
read_frame_counter_write ==
    /\ dpc = "counter_write"
    /\ mpkit' = [mpkit EXCEPT !.counter = dreg + 1]
    /\ dpc' = "start"
    /\ UNCHANGED <<ipVars, args, cap, self, ofile, mpfdp, wk, dreg, ret, out>>

\* lines 477-480: the child is a copy of the driver as it is at start()
read_frame_start ==
    /\ dpc = "start"
    /\ self.frnum \in Workers
    /\ wk' = [wk EXCEPT ![self.frnum] =
                 [pc |-> "Frame", frnum |-> self.frnum, file |-> self.ifile.pos,
                  reg |-> 0, reasm |-> self.reasm, frame |-> NoFrame]]
    /\ self' = [self EXCEPT !.frnum = @ + 1, !.mpprc = Append(@, self.frnum)]
    /\ dpc' = "check_buffer"
    /\ UNCHANGED <<ipVars, args, cap, ofile, mpkit, mpfdp, dreg, ret, out>>

\* lines 482-485
read_frame_check_buffer ==
    /\ dpc = "check_buffer"
    /\ IF Len(self.mpprc) >= CPU_CNT
       THEN /\ Terminated(Elems(DropLast(self.mpprc, KEEP)))
            /\ self' = [self EXCEPT !.mpprc = LastOnes(@, KEEP)]
       ELSE UNCHANGED self
    /\ dpc' = "check_eof"
    /\ UNCHANGED <<ipVars, args, cap, ofile, mpkit, mpfdp, wk, dreg, ret, out>>

Driver ==
    \/ init_mp
    \/ read_frame_check_eof
    \/ update_eof
    \/ read_frame_check_pool
    \/ read_frame_check_counter
    \/ read_frame_seek
    \/ read_frame_pool_read
    \/ read_frame_pool_write
    \/ read_frame_counter_read
    \/ read_frame_counter_write
    \/ read_frame_start
    \/ read_frame_check_buffer

\* ---- parallel mode: the worker for frame w --------------------------------
\* Frame(...) in the child (not in src): read the record at the child's file
\* position; a record that decodes publishes the offset of the next record
\* on the child's queue, otherwise EOFError reaches line 500
worker_Frame(w) ==
    /\ wk[w].pc = "Frame"
    /\ IF FrameRead([closed |-> FALSE, pos |-> wk[w].file]) = "ok"
       THEN /\ wk' = [wk EXCEPT ![w].frame = FrameOf(wk[w].frnum, wk[w].file),
                                ![w].pc = "pool_read"]
            /\ mpfdp' = [mpfdp EXCEPT ![w] = Append(@, wk[w].file + 1)]
       ELSE /\ wk' = [wk EXCEPT ![w].pc = "eof"]
            /\ UNCHANGED mpfdp
    /\ UNCHANGED <<ipVars, args, cap, self, ofile, mpkit, dpc, dreg, ret, out>>

\* Frame(...) in the child: pool += 1, the read
worker_pool_read(w) ==
    /\ wk[w].pc = "pool_read"
    /\ wk' = [wk EXCEPT ![w].reg = mpkit.pool, ![w].pc = "pool_write"]
    /\ UNCHANGED <<ipVars, args, cap, self, ofile, mpkit, mpfdp, dpc, dreg, ret, out>>

\* Frame(...) in the child: pool += 1, the write
worker_pool_write(w) ==
    /\ wk[w].pc = "pool_write"
    /\ mpkit' = [mpkit EXCEPT !.pool = wk[w].reg + 1]
    /\ wk' = [wk EXCEPT ![w].pc = "wait"]
    /\ UNCHANGED <<ipVars, args, cap, self, ofile, mpfdp, dpc, dreg, ret, out>>

analyse_frame_wait_ungated(w) ==
    /\ wk[w].pc = "wait"
    /\ wk' = [wk EXCEPT ![w].pc = "get"]
    /\ UNCHANGED <<ipVars, args, cap, self, ofile, mpkit, mpfdp, dpc, dreg, ret, out>>

\* lines 512-514: the loop is left when mpkit.curent is the child's _frnum
analyse_frame_wait(w) ==
    /\ wk[w].pc = "wait"
    /\ mpkit.curent = wk[w].frnum
    /\ wk' = [wk EXCEPT ![w].pc = "get"]
    /\ UNCHANGED <<ipVars, args, cap, self, ofile, mpkit, mpfdp, dpc, dreg, ret, out>>

\* line 518: self._reasm = mpkit.reassembly
analyse_frame_get(w) ==
    /\ wk[w].pc = "get"
    /\ wk' = [wk EXCEPT ![w].reasm = mpkit.reassembly, ![w].pc = "analyse"]
    /\ UNCHANGED <<ipVars, args, cap, self, ofile, mpkit, mpfdp, dpc, dreg, ret, out>>

\* lines 526-547 in the child
analyse_frame_ng(w) ==
    /\ wk[w].pc = "analyse"
    /\ LET a == analyse_frame_ng_head([self EXCEPT !.frnum = wk[w].frnum,
                                                   !.reasm = wk[w].reasm],
                                      ofile, wk[w].frame)
       IN /\ ofile' = a.ofile
          /\ wk' = [wk EXCEPT ![w].reasm = a.self.reasm, ![w].pc = "store"]
    /\ UNCHANGED <<ipVars, args, cap, self, mpkit, mpfdp, dpc, dreg, ret, out>>

\* mpkit.frames[k] = v: the Namespace proxy hands out a copy of the dict and
\* the item is set in that copy, which is then dropped
NamespaceSetItemShared(ns, k, v) == [ns EXCEPT !.frames = PutKey(@, k, v)]

NamespaceSetItem(ns, k, v) == ns

\* lines 550-553
analyse_frame_ng_store(w) ==
    /\ wk[w].pc = "store"
    /\ mpkit' = IF self.flag_d THEN NamespaceSetItem(mpkit, wk[w].frnum, wk[w].frame)
                ELSE mpkit
    /\ wk' = [wk EXCEPT ![w].pc = "curent_read"]
    /\ UNCHANGED <<ipVars, args, cap, self, ofile, mpfdp, dpc, dreg, ret, out>>

\* line 555: mpkit.curent += 1, the read
analyse_frame_ng_curent_read(w) ==
    /\ wk[w].pc = "curent_read"
    /\ wk' = [wk EXCEPT ![w].reg = mpkit.curent, ![w].pc = "curent_write"]
    /\ UNCHANGED <<ipVars, args, cap, self, ofile, mpkit, mpfdp, dpc, dreg, ret, out>>

\* line 555: mpkit.curent += 1, the write
analyse_frame_ng_curent_write(w) ==
    /\ wk[w].pc = "curent_write"
    /\ mpkit' = [mpkit EXCEPT !.curent = wk[w].reg + 1]
    /\ wk' = [wk EXCEPT ![w].pc = "put"]
    /\ UNCHANGED <<ipVars, args, cap, self, ofile, mpfdp, dpc, dreg, ret, out>>

\* line 521: mpkit.reassembly = copy.deepcopy(self._reasm)
analyse_frame_put(w) ==
    /\ wk[w].pc = "put"
    /\ mpkit' = [mpkit EXCEPT !.reassembly = wk[w].reasm]
    /\ wk' = [wk EXCEPT ![w].pc = "counter_read"]
    /\ UNCHANGED <<ipVars, args, cap, self, ofile, mpfdp, dpc, dreg, ret, out>>

extract_frame_eof_unflagged(w) ==
    /\ wk[w].pc = "eof"
    /\ wk' = [wk EXCEPT ![w].pc = "counter_read"]
    /\ UNCHANGED <<ipVars, args, cap, self, ofile, mpkit, mpfdp, dpc, dreg, ret, out>>

\* lines 500-501
extract_frame_eof(w) ==
    /\ wk[w].pc = "eof"
    /\ mpkit' = [mpkit EXCEPT !.eof = TRUE]
    /\ wk' = [wk EXCEPT ![w].pc = "counter_read"]
    /\ UNCHANGED <<ipVars, args, cap, self, ofile, mpfdp, dpc, dreg, ret, out>>

\* line 503: mpkit.counter -= 1, the read
extract_frame_counter_read(w) ==
    /\ wk[w].pc = "counter_read"
    /\ wk' = [wk EXCEPT ![w].reg = mpkit.counter, ![w].pc = "counter_write"]
    /\ UNCHANGED <<ipVars, args, cap, self, ofile, mpkit, mpfdp, dpc, dreg, ret, out>>

\* lines 503-504: mpkit.counter -= 1, the write; the child closes its file
\* and ends
extract_frame_counter_write(w) ==
    /\ wk[w].pc = "counter_write"
    /\ mpkit' = [mpkit EXCEPT !.counter = wk[w].reg - 1]
    /\ wk' = [wk EXCEPT ![w].pc = "done"]
    /\ UNCHANGED <<ipVars, args, cap, self, ofile, mpfdp, dpc, dreg, ret, out>>

Worker(w) ==
    \/ worker_Frame(w)
    \/ worker_pool_read(w)
    \/ worker_pool_write(w)
    \/ analyse_frame_wait(w)
    \/ analyse_frame_get(w)
    \/ analyse_frame_ng(w)
    \/ analyse_frame_ng_store(w)
    \/ analyse_frame_ng_curent_read(w)
    \/ analyse_frame_ng_curent_write(w)
    \/ analyse_frame_put(w)
    \/ extract_frame_eof(w)
    \/ extract_frame_counter_read(w)
    \/ extract_frame_counter_write(w)

Init == InitEx
Next == init_seq \/ iter \/ next \/ call \/ exit \/ Driver \/ \E w \in Workers : Worker(w)
Spec == Init /\ [][Next]_vars

\* ---- an Extractor(auto=True) left to run -----------------------------------
\* The driving process and every started worker are scheduled by the
\* operating system: each keeps taking steps while it has one to take.
InitAuto == InitEx /\ self.flag_a
NextAuto == Driver \/ \E w \in Workers : Worker(w)
FairAuto == WF_vars(Driver) /\ \A w \in Workers : WF_vars(Worker(w))
SpecAuto == InitAuto /\ [][NextAuto]_vars /\ FairAuto

\* ------------------------------------------------------- claims on Spec
Parallel == self.flag_m
TornDown == Parallel /\ dpc = "ready"
Started == {w \in Workers : wk[w].pc # "idle"}
Running == {w \in Workers : wk[w].pc \notin {"idle", "done"}}
InAnalysis == {w \in Workers :
                 wk[w].pc \in {"get", "analyse", "store", "curent_read", "curent_write", "put"}}
PastAnalysis == {w \in Workers : wk[w].pc \in {"counter_read", "counter_write", "done"}}
\* the workers whose Frame(...) raised EOFError and whose handler has run
Failed == {w \in PastAnalysis : wk[w].frame = NoFrame}

\* the same capture read by an Extractor(auto=False) stepped to the end
RECURSIVE Drain(_, _)
Drain(s, o) ==
    LET r == record_frames(s, o)
    IN IF r.exc # "none" THEN s ELSE Drain(r.self, r.ofile)
SequentialRun ==
    LET h == record_header(NewExtractor(FALSE, self.flag_d, self.flag_q), << >>)
    IN Drain(h.self, h.ofile)

\* C3 (as claimed): when the parallel extraction is over, the recorded frame
\* history and the reassembly state are those of the sequential extraction
\* of the same capture.
C3_ParallelEqualsSequential ==
    TornDown => /\ self.frame = SequentialRun.frame
                /\ self.reasm = SequentialRun.reasm

\* C4 (as claimed): a worker is inside its analysis step (from the read of
\* the shared reassembly state to its write-back) only when every worker of
\* a lower frame number is past its own, so at most one worker is inside.
C4_AnalysisInTurn ==
    /\ \A w \in InAnalysis : \A v \in 1..(w - 1) : v \in PastAnalysis
    /\ Cardinality(InAnalysis) <= 1

\* C5: the frames next() / __call__ return carry frame numbers that go up by
\* exactly one from each returned frame to the next.
C5_ReturnedInOrder ==
    \A i \in 1..(Len(out) - 1) : out[i + 1].num = out[i].num + 1

\* C5 witness: a step-wise Extractor has returned at least two frames, the
\* last call among them.
C5_Witness == ~self.flag_a /\ Len(out) >= 2 /\ ret = "frame"

\* C6 (as claimed): the workers started and not yet through their
\* counter -= 1 are never more than CPU_CNT.
C6_OutstandingBounded == Cardinality(Running) <= CPU_CNT

\* C8 (as claimed): on a closed pipeline next() and __call__ fail with an
\* illegal-state or end-of-input signal and change nothing, and closing
\* again changes nothing.
C8_ClosedStaysClosed ==
    [][(dpc = "ready" /\ self.ifile.closed) =>
          /\ (next \/ call) =>
                /\ ret' \in {"StopIteration", "EOFError", "CallableError",
                             "IterableError", "UnsupportedCall"}
                /\ UNCHANGED <<self, ofile, out>>
          /\ exit => UNCHANGED <<self, ofile, out>>]_vars

C10_NoOrphanedWorkers ==
    (self.ifile.closed \/ self.flag_e) => Running = {}

\* C10 witness: a parallel extraction over two records is over, its input
\* closed, after three workers ran.
C10_Witness == TornDown /\ self.ifile.closed /\ self.flag_e /\ Cardinality(Started) = 3

\* the workers whose frame has been through the sink call of lines 532-539
Emitted == {w \in Workers : /\ wk[w].frame # NoFrame
                            /\ wk[w].pc \in {"store", "curent_read", "curent_write", "put",
                                             "counter_read", "counter_write", "done"}}
\* the frames analysed so far
Analysed == IF Parallel THEN Cardinality(Emitted)
            ELSE IF dpc = "raised" THEN 0 ELSE self.frnum - 1

\* C12: with a sink configured, the sink has been called for the global
\* header first and once, and then once for each frame analysed, frame 1,
\* frame 2, ... in this order, in sequential and in parallel mode.
C12_SinkOncePerFrameInOrder ==
    (~self.flag_q /\ dpc # "new") =>
        /\ Len(ofile) = 1 + Analysed
        /\ ofile[1] = [name |-> "Global Header", num |-> 0]
        /\ \A i \in 2..Len(ofile) : ofile[i] = [name |-> "Frame", num |-> i - 1]

\* C12 witness: a parallel extraction with a sink is over and the sink was
\* called for the header and at least two frames.
C12_Witness == Parallel /\ ~self.flag_q /\ TornDown /\ Len(ofile) >= 3

\* C13 (as claimed): on an Extractor built with auto=True, __iter__, __next__
\* and __call__ each end with a call-not-permitted error and leave the
\* Extractor, the sink and the returned frames as they were.
C13_AutoRejectsStepping ==
    [][(dpc = "ready" /\ self.flag_a /\ (iter \/ next \/ call)) =>
          /\ ret' \in {"IterableError", "CallableError", "UnsupportedCall"}
          /\ UNCHANGED <<self, ofile, out, mpkit, wk>>]_vars

\* the reassembly state after frames 1..n were submitted in capture order
\* (frame i is the record at file position i)
InOrder(n) == [i \in 1..n |-> i]

\* C14 (as claimed): the reassembly state a worker has read from the shared
\* Namespace at the start of its analysis is the one left by frames 1..N-1
\* in capture order.
C14_NoStaleReassemblyState ==
    \A w \in Workers :
        wk[w].pc = "analyse" => wk[w].reasm = InOrder(wk[w].frnum - 1)

\* the workers of ws that were started carry the numbers 1..k, each began at
\* the offset where its frame starts and decoded at most that one frame, and
\* its predecessor had decoded (and so published the next offset) before
Numbered(ws) ==
    \A w \in Workers :
        ws[w].pc # "idle" =>
            /\ w > 1 => ws[w - 1].pc # "idle" /\ ws[w - 1].frame # NoFrame
            /\ ws[w].frnum = w
            /\ ws[w].file = HeaderLength + (w - 1)
            /\ ws[w].frame = NoFrame \/ ws[w].frame = FrameOf(w, ws[w].file)

\* C23: in parallel mode the k-th worker started carries frame number k and
\* began at the offset the worker before it published; it decodes at most the
\* one frame at that offset; and when the driver is about to start a worker,
\* that worker's number was given to no process before, the workers of all
\* lower numbers were started, and the file stands at the published offset.
C23_OneShotNumbered ==
    (Parallel /\ dpc # "new") =>
        /\ Numbered(wk)
        /\ dpc = "start" =>
               /\ wk[self.frnum].pc = "idle"
               /\ \A w \in Workers : wk[w].pc # "idle" <=> w < self.frnum
               /\ self.ifile.pos = HeaderLength + (self.frnum - 1)
               /\ self.frnum > 1 => wk[self.frnum - 1].frame # NoFrame

\* C23 witness: the worker for frame 1 has ended with its frame decoded and
\* the worker for frame 2 has decoded the record at the published offset.
C23_Witness ==
    /\ Parallel /\ dpc # "new"
    /\ wk[1].pc = "done" /\ wk[1].frame = FrameOf(1, 1)
    /\ wk[2].pc # "idle" /\ wk[2].frame = FrameOf(2, 2)

\* lines 124-126
length(s) == s.frnum - 1

\* lines 152-156: [exc, value]
frame_property(s) ==
    IF s.flag_d THEN [exc |-> "none", value |-> s.frame]
    ELSE [exc |-> "UnsupportedCall", value |-> << >>]

\* the history of s is frames 1..length(s), in order
HistoryInOrder(s) ==
    /\ frame_property(s).exc = "none"
    /\ Len(frame_property(s).value) = length(s)
    /\ \A i \in 1..length(s) : frame_property(s).value[i] = FrameOf(i, i)

\* C25 (as claimed): with store=True the frame history is frames 1..length
\* in order, in sequential mode after every step and in parallel mode after
\* teardown; with store=False nothing is kept and the query raises
\* UnsupportedCall.
C25_HistoryComplete ==
    (dpc # "new" /\ (~Parallel \/ TornDown)) =>
        IF self.flag_d THEN HistoryInOrder(self)
        ELSE self.frame = << >> /\ frame_property(self).exc = "UnsupportedCall"

\* C26: length is the number of records decoded and analysed: in sequential
\* mode the records the file was read past, also after a step that met the
\* end of the input; in parallel mode after teardown the records of the
\* capture that decode.
C26_LengthCountsAnalysed ==
    /\ (dpc # "new" /\ ~Parallel) =>
           /\ length(self) = self.ifile.pos - HeaderLength
           /\ length(self) <= cap.n
           /\ ret \in {"StopIteration", "EOFError"} => length(self) = cap.n
    /\ TornDown => length(self) = cap.n

\* C26 witness: the parallel extraction of a capture of two frames is torn
\* down, the worker for frame 3 having met the end of the input.
C26_Witness ==
    /\ TornDown
    /\ cap.n = 2
    /\ wk[3].pc = "done" /\ wk[3].frame = NoFrame
    /\ length(self) = 2

\* C27 (as claimed): a constructed Extractor(auto=False) has read the global
\* header and no record; the first frame handed to the caller is number 1,
\* and when the end of the input is met the caller was handed frames 1..N,
\* each once.
C27_SteppingStartsAtFirstFrame ==
    (~self.flag_a /\ dpc \in {"ready", "raised"}) =>
        /\ dpc = "ready"
        /\ (out = << >> /\ ret = "none") => self.ifile.pos = HeaderLength /\ length(self) = 0
        /\ Len(out) >= 1 => out[1] = FrameOf(1, 1)
        /\ ret = "StopIteration" => out = [i \in 1..cap.n |-> FrameOf(i, i)]

\* the workers of ws that decoded a frame and are past line 555
Counted(ws) ==
    {w \in Workers : /\ ws[w].pc \in {"put", "counter_read", "counter_write", "done"}
                     /\ ws[w].frame # NoFrame}

\* C28: mpkit.curent is 1 when the Namespace is set up; a step leaves it or
\* adds 1 to it, and adds 1 only as the write of line 555 by the worker whose
\* frame number it was, a worker that decoded its frame; it is 1 plus the
\* number of workers past that line, never more than the number of workers
\* started plus 1; and mpkit.eof, once set, stays set.
C28_GateCounterInStep ==
    [][/\ init_mp => mpkit'.curent = 1 /\ ~mpkit'.eof
       /\ (Parallel /\ dpc # "new") =>
             /\ mpkit'.curent \in {mpkit.curent, mpkit.curent + 1}
             /\ mpkit'.curent # mpkit.curent =>
                    \E w \in Workers : /\ analyse_frame_ng_curent_write(w)
                                       /\ wk[w].frnum = mpkit.curent
                                       /\ wk[w].frame # NoFrame
             /\ mpkit'.curent = 1 + Cardinality(Counted(wk'))
             /\ mpkit'.curent <= Cardinality({w \in Workers : wk'[w].pc # "idle"}) + 1
             /\ mpkit.eof => mpkit'.eof]_vars

\* C28 witness: both frames of a capture of two were analysed, the counter
\* stands at 3, and the worker for frame 3 has set the EOF flag.
C28_Witness ==
    /\ Parallel /\ dpc # "new"
    /\ cap.n = 2
    /\ mpkit.curent = 3
    /\ mpkit.eof
    /\ Counted(wk) = {1, 2}

\* ---------------------------------------------------- claims on SpecAuto
\* the driver has left _read_frame: workers joined, state merged, input closed
Drained == /\ dpc = "ready"
           /\ Running = {}
           /\ ~self.mp
           /\ self.ifile.closed /\ self.flag_e

\* C15: under fair scheduling of the driver and the workers, the parallel
\* extraction of every capture ends: the driver sees end-of-input, joins the
\* workers, merges their state and closes the input.
C15_AutoTerminates == <>Drained

\* C15 witness: the extraction of a capture of at least two records has
\* ended although the shared counter has drifted from the number of workers
\* running.
C15_Witness == Drained /\ cap.n >= 2 /\ mpkit.counter # 0

\* ---------------------------------------------------- claims on SpecNew
\* the format the caller asked for: `format`, else the extension of fout
RequestedFormat ==
    IF args.fmt # None THEN args.fmt
    ELSE IF args.fout # NoName /\ args.fout.ext # "" THEN args.fout.ext
    ELSE None
MissingInput == InputName(args) \notin args.isfile
UnrecognisedFormat == ~args.nofile /\ RequestedFormat \notin SinkFormats
\* no header read, no record decoded, no sink call
NothingRead ==
    /\ ofile = << >>
    /\ out = << >>
    /\ DOMAIN self = {} \/ (self.ifile.pos = 0 /\ self.frnum = 1)
    /\ \A w \in Workers : wk[w].pc = "idle"

\* C11: a constructor call that names a missing input file ends with
\* FileNotFound, whatever the output format; one that names an input file
\* that exists and an output format no sink is known for (or none) ends with
\* FormatError; in both cases nothing was read, decoded or handed to a sink.
C11_ConstructionFails ==
    /\ dpc \in {"call", "open"} => NothingRead
    /\ (MissingInput /\ dpc # "call") =>
           dpc = "raised" /\ ret = "FileNotFound" /\ NothingRead
    /\ (~MissingInput /\ UnrecognisedFormat /\ dpc \notin {"call", "open"}) =>
           dpc = "raised" /\ ret = "FormatError" /\ NothingRead

\* C11 witness: the input file is missing and the format is unknown too, and
\* the call has ended with FileNotFound.
C11_Witness ==
    MissingInput /\ UnrecognisedFormat /\ dpc = "raised" /\ ret = "FileNotFound"

\* ======================================================= reassembly engines
\* SpecReasm : the three engines of an Extractor, from the ip / ipv4 / ipv6 /
\*             tcp arguments of the constructor to the reassembly query,
\*             over the frames of a capture taken in order.
MaxReasmFrames == 2

EngineArguments == [ip : BOOLEAN, ipv4 : BOOLEAN, ipv6 : BOOLEAN, tcp : BOOLEAN]

\* what lines 602-675 read of a frame: which IP layer it has, the DF flag
\* of an IPv4 layer, the fragment header of an IPv6 layer, a TCP layer
ReasmFrames ==
    {f \in [ip : {"none", "IPv4", "IPv6"}, df : BOOLEAN, frag : BOOLEAN, tcp : BOOLEAN] :
        /\ f.df => f.ip = "IPv4"
        /\ f.frag => f.ip = "IPv6"
        /\ f.tcp => f.ip # "none"}

\* an entry of _reasm: None, or an engine and the fragments it was handed
NoEngine == [made |-> FALSE, frags |-> << >>]
NewEngine == [made |-> TRUE, frags |-> << >>]

\* lines 314-329
NewReasm(a) ==
    LET ipv4 == a.ipv4 \/ a.ip
        ipv6 == a.ipv6 \/ a.ip
        tcp  == a.tcp
    IN [ipv4 |-> ipv4, ipv6 |-> ipv6, tcp |-> tcp,
        reasm |-> <<IF ipv4 THEN NewEngine ELSE NoEngine,
                    IF ipv6 THEN NewEngine ELSE NoEngine,
                    IF tcp THEN NewEngine ELSE NoEngine>>]

\* self._reasm[i](data), i counted from 0
EngineCall(s, i, frame) == [s EXCEPT !.reasm[i + 1].frags = Submit(@, frame)]

\* lines 602-624 with the DF test left out
ipv4_reassembly_df_blind(s, f, frame) ==
    IF f.ip = "IPv4" THEN EngineCall(s, 0, frame) ELSE s

\* lines 602-624
ipv4_reassembly(s, f, frame) ==
    IF f.ip = "IPv4"
    THEN IF f.df THEN s ELSE EngineCall(s, 0, frame)
    ELSE s

\* lines 626-649
ipv6_reassembly(s, f, frame) ==
    IF f.ip = "IPv6"
    THEN IF ~f.frag THEN s ELSE EngineCall(s, 1, frame)
    ELSE s

\* lines 651-675
tcp_reassembly(s, f, frame) ==
    IF f.tcp THEN EngineCall(s, 2, frame) ELSE s

\* lines 541-547
record_fragments(s, f, frame) ==
    LET s1 == IF s.tcp THEN tcp_reassembly(s, f, frame) ELSE s
        s2 == IF s1.ipv4 THEN ipv4_reassembly(s1, f, frame) ELSE s1
    IN IF s2.ipv6 THEN ipv6_reassembly(s2, f, frame) ELSE s2

\* lines 158-165: per engine, None or the tuple of what the engine holds
NoneResult == [none |-> TRUE, datagram |-> << >>]
reassembly_property(s) ==
    [ipv4 |-> IF s.ipv4 THEN [none |-> FALSE, datagram |-> s.reasm[1].frags] ELSE NoneResult,
     ipv6 |-> IF s.ipv6 THEN [none |-> FALSE, datagram |-> s.reasm[2].frags] ELSE NoneResult,
     tcp  |-> IF s.tcp THEN [none |-> FALSE, datagram |-> s.reasm[3].frags] ELSE NoneResult]

InitReasm ==
    /\ info \in UNION {[1..n -> ReasmFrames] : n \in 0..MaxReasmFrames}
    /\ pos = 1
    /\ buffer = << >>
    /\ datagram = << >>
    /\ locals = [TDL |-> Unbound, bound |-> {}]
    /\ exc = "none"
    /\ args \in EngineArguments
    /\ cap = [n |-> 0, fail |-> FALSE]
    /\ self = << >>
    /\ ofile = << >>
    /\ mpkit = << >>
    /\ mpfdp = << >>
    /\ wk = << >>
    /\ dpc = "reasm_new"
    /\ dreg = 0
    /\ ret = << >>
    /\ out = << >>

\* lines 314-329
reasm_init ==
    /\ dpc = "reasm_new"
    /\ self' = NewReasm(args)
    /\ dpc' = "reasm_ready"
    /\ UNCHANGED <<ipVars, args, cap, ofile, mpkit, mpfdp, wk, dreg, ret, out>>

\* lines 541-547 on the next frame of the capture
reasm_record ==
    /\ dpc = "reasm_ready"
    /\ pos <= Len(info)
    /\ self' = record_fragments(self, info[pos], FrameOf(pos, pos))
    /\ pos' = pos + 1
    /\ UNCHANGED <<info, buffer, datagram, locals, exc>>
    /\ UNCHANGED <<args, cap, ofile, mpkit, mpfdp, wk, dpc, dreg, ret, out>>

\* lines 158-165
reasm_query ==
    /\ dpc = "reasm_ready"
    /\ ret' = reassembly_property(self)
    /\ UNCHANGED <<ipVars, args, cap, self, ofile, mpkit, mpfdp, wk, dpc, dreg, out>>

NextReasm == reasm_init \/ reasm_record \/ reasm_query

SpecReasm == InitReasm /\ [][NextReasm]_vars

\* ---------------------------------------------------- claims on SpecReasm
\* C24: the constructor makes the IPv4 engine iff ipv4 or ip, the IPv6 engine
\* iff ipv6 or ip, the TCP engine iff tcp; analysing a frame leaves an engine
\* that was not made as it is, and leaves the IPv4 engine as it is on a frame
\* without IPv4 or with DF set, the IPv6 engine on a frame without IPv6 or
\* without a fragment header, the TCP engine on a frame without TCP; the
\* reassembly query gives None exactly for the engines that were not made.
C24_EnginesToggled ==
    [][/\ reasm_init =>
             /\ self'.reasm[1].made <=> (args.ipv4 \/ args.ip)
             /\ self'.reasm[2].made <=> (args.ipv6 \/ args.ip)
             /\ self'.reasm[3].made <=> args.tcp
       /\ reasm_record =>
             /\ \A e \in 1..3 : ~self.reasm[e].made => self'.reasm[e] = NoEngine
             /\ (info[pos].ip # "IPv4" \/ info[pos].df) => self'.reasm[1] = self.reasm[1]
             /\ (info[pos].ip # "IPv6" \/ ~info[pos].frag) => self'.reasm[2] = self.reasm[2]
             /\ ~info[pos].tcp => self'.reasm[3] = self.reasm[3]
       /\ reasm_query =>
             /\ ret'.ipv4.none <=> ~self.reasm[1].made
             /\ ret'.ipv6.none <=> ~self.reasm[2].made
             /\ ret'.tcp.none <=> ~self.reasm[3].made]_vars

\* C24 witness: built with ip=True alone; an IPv4 frame with DF and TCP, then
\* an IPv4 fragment, were analysed: the IPv4 engine holds the second frame
\* only, the IPv6 engine nothing, there is no TCP engine and the query has
\* answered None for it.
C24_Witness ==
    /\ dpc = "reasm_ready"
    /\ args = [ip |-> TRUE, ipv4 |-> FALSE, ipv6 |-> FALSE, tcp |-> FALSE]
    /\ pos = 3
    /\ info[1] = [ip |-> "IPv4", df |-> TRUE, frag |-> FALSE, tcp |-> TRUE]
    /\ info[2] = [ip |-> "IPv4", df |-> FALSE, frag |-> FALSE, tcp |-> FALSE]
    /\ self.reasm = <<[made |-> TRUE, frags |-> <<2>>], NewEngine, NoEngine>>
    /\ DOMAIN ret = {"ipv4", "ipv6", "tcp"}
    /\ ret.tcp = NoneResult /\ ~ret.ipv4.none /\ ret.ipv4.datagram = <<2>>

====
